---- MODULE Spec2Model ----
(***************************************************************************)
(* State-machine model of the roster dashboard server (src/index.ts).      *)
(* The account and character collections, the session store, the seeder    *)
(* and the request handlers are modelled step by step: one action per      *)
(* stretch of handler code between two awaits.                              *)
(***************************************************************************)
EXTENDS Integers, Sequences, FiniteSets, Bags, TLC

(***************************************************************************)
(* Bounds of the exploration.                                               *)
(***************************************************************************)
\* Requests the server accepts in one behaviour.
MaxRequests == 2

(***************************************************************************)
(* Input domains.                                                           *)
(***************************************************************************)
Browsers == {"b1", "b2"}
Usernames == {"admin", "user", "bob"}
\* The forms posted to /login and to /register.
Logins ==
    { [username |-> "admin", password |-> "admin123"],
      [username |-> "admin", password |-> "user123"],
      [username |-> "user", password |-> "user123"],
      [username |-> "bob", password |-> "user123"] }
Registrations == {[username |-> u, password |-> "user123"] : u \in Usernames}

(***************************************************************************)
(* Values.                                                                  *)
(***************************************************************************)
\* JavaScript numbers that occur as ages: an integer or NaN.
Num(n) == [nan |-> FALSE, v |-> n]
NaN == [nan |-> TRUE, v |-> 0]

\* Strings that are searched, lower-cased or parsed are sequences of code units.
Digits == 48..57

\* parseInt(s): the leading decimal digits of s, NaN when there is none.
RECURSIVE DigitsValue(_, _)
DigitsValue(s, acc) ==
    IF s = <<>> \/ Head(s) \notin Digits THEN acc
    ELSE DigitsValue(Tail(s), 10 * acc + (Head(s) - 48))

parseInt(s) ==
    IF s = <<>> \/ Head(s) \notin Digits THEN NaN ELSE Num(DigitsValue(s, 0))

\* bcrypt.hash(password, 10) and bcrypt.compare(password, hash): the hash is
\* one-way, and compare accepts exactly the password the hash was made from.
bcryptHash(password) == [alg |-> "bcrypt", cost |-> 10, of |-> password]

bcryptCompare(password, hash) == hash.of = password

\* req.session.user when the session holds no user.
NoUser == [_id |-> "", username |-> "", role |-> "NONE"]

\* The result null of findOne on the account collection.
NoAccount == [_id |-> 0, username |-> "", password |-> bcryptHash(""), role |-> "NONE"]

\* ObjectId.toString()
oidToString(oid) == "oid" \o ToString(oid)

(***************************************************************************)
(* The external character resource (GITHUB_URL).                            *)
(***************************************************************************)
Unit(id, name, elite) ==
    [id |-> id, name |-> name, emblemUrl |-> "e-" \o id, motto |-> "m-" \o id,
     isElite |-> elite, foundedYear |-> 1990]

Char(id, name, age, rank, unit) ==
    [id |-> id, name |-> name, age |-> Num(age), description |-> "d-" \o id,
     isActive |-> TRUE, rank |-> rank, birthDate |-> "1980-01-01",
     imageUrl |-> "i-" \o id, weapons |-> <<"M4">>, unit |-> unit]

\* "Bo", "al", "Cab": names as code units.
RosterData ==
    << Char("c1", <<66, 111>>, 30, "Sgt", Unit("u1", <<82, 101, 100>>, TRUE)),
       Char("c2", <<97, 108>>, 25, "Cpt", Unit("u2", <<66, 108>>, FALSE)) >>

\* What response.json() can yield: the roster, or an empty array.
Datasets == {RosterData, <<>>}

CharIds == {"c1", "zz"}

\* Bodies of POST /characters/:id/edit.
EditBodies ==
    { [name |-> <<90, 111>>, age |-> <<52, 49>>, description |-> "new", isActive |-> "true"],
      [name |-> <<97, 108>>, age |-> <<120>>, description |-> "d-c1", isActive |-> "on"] }

NoBody == [name |-> <<>>, age |-> <<>>, description |-> "", isActive |-> ""]

NoUnit == Unit("", <<>>, FALSE)

\* The emblems collection: nothing in the program writes it.
Emblems == << [id |-> "u2", name |-> <<66, 76>>, emblemUrl |-> "E-u2", motto |-> "M-u2",
               isElite |-> TRUE, foundedYear |-> 1985] >>

(***************************************************************************)
(* State.                                                                   *)
(***************************************************************************)
VARIABLES
    users,       \* the USER_COLLECTION, in insertion order
    characters,  \* the CHAR_COLLECTION, in insertion order
    session,     \* per browser cookie: req.session.user as the store holds it
    seeder,      \* connectAndSeedDatabase: where it is, and the data it fetched
    inflight,    \* the requests suspended at an await (a bag)
    nreq,        \* requests accepted so far
    last         \* the response the latest step sent (Quiet when it sent none)

vars == <<users, characters, session, seeder, inflight, nreq, last>>

\* A response: res.redirect(text), res.render(text, ...), res.send(text), or none.
Resp(route, status, kind, text) ==
    [route |-> route, status |-> status, kind |-> kind, text |-> text, msg |-> "",
     chars |-> <<>>, accounts |-> <<>>, unit |-> NoUnit]

\* No response: the step sent nothing.
Quiet == Resp("", 0, "none", "")

NoQuery == [search |-> <<>>, sort |-> "", order |-> ""]

\* A request suspended at an await, with the locals its handler holds (b: the
\* browser whose session the handler writes, when it writes one).
Req(route, pc, b) ==
    [route |-> route, pc |-> pc, b |-> b, username |-> "", password |-> "",
     id |-> "", body |-> NoBody, query |-> NoQuery, account |-> NoAccount,
     members |-> <<>>]

Suspend(r) == inflight' = inflight (+) SetToBag({r})
Resume(r) == inflight' = inflight (-) SetToBag({r})
Suspended(route, pc) == {r \in BagToSet(inflight) : r.route = route /\ r.pc = pc}

Accept == nreq < MaxRequests /\ nreq' = nreq + 1

\* A findOne that looks at the first account only.
findOneHead(col, username) ==
    IF col # <<>> /\ Head(col).username = username THEN Head(col) ELSE NoAccount

\* collection.findOne({username}): the first account with that name, or null.
RECURSIVE findOne(_, _)
findOne(col, username) ==
    IF col = <<>> THEN NoAccount
    ELSE IF Head(col).username = username THEN Head(col)
    ELSE findOne(Tail(col), username)

\* collection.insertOne(doc): the store assigns a fresh _id.
insertOne(col, username, hash, role) ==
    Append(col, [_id |-> Len(col) + 1, username |-> username, password |-> hash,
                 role |-> role])

Init ==
    /\ users = <<>>
    /\ characters = <<>>
    /\ session = [b \in Browsers |-> NoUser]
    /\ seeder = [pc |-> "connect", data |-> <<>>, prev |-> "none"]
    /\ inflight = EmptyBag
    /\ nreq = 0
    /\ last = Quiet

(***************************************************************************)
(* connectAndSeedDatabase (lines 55-90), one action per await.              *)
(***************************************************************************)
SeedStep(pc) == seeder' = [seeder EXCEPT !.pc = pc]

\* await client.connect()
SeedConnect ==
    /\ seeder.pc = "connect"
    /\ SeedStep("findAdmin")
    /\ UNCHANGED <<users, characters, session, inflight, nreq>>
    /\ last' = Quiet

\* const adminExists = await usersCol.findOne({ username: 'admin' })
SeedFindAdmin ==
    /\ seeder.pc = "findAdmin"
    /\ SeedStep(IF findOne(users, "admin") # NoAccount THEN "findUser" ELSE "insertAdmin")
    /\ UNCHANGED <<users, characters, session, inflight, nreq>>
    /\ last' = Quiet

\* the hash, then await usersCol.insertOne({ username: 'admin', ..., role: 'ADMIN' })
SeedInsertAdmin ==
    /\ seeder.pc = "insertAdmin"
    /\ users' = insertOne(users, "admin", bcryptHash("admin123"), "ADMIN")
    /\ SeedStep("findUser")
    /\ UNCHANGED <<characters, session, inflight, nreq>>
    /\ last' = Quiet

SeedFindUser ==
    /\ seeder.pc = "findUser"
    /\ SeedStep(IF findOne(users, "user") # NoAccount THEN "count" ELSE "insertUser")
    /\ UNCHANGED <<users, characters, session, inflight, nreq>>
    /\ last' = Quiet

SeedInsertUser ==
    /\ seeder.pc = "insertUser"
    /\ users' = insertOne(users, "user", bcryptHash("user123"), "USER")
    /\ SeedStep("count")
    /\ UNCHANGED <<characters, session, inflight, nreq>>
    /\ last' = Quiet

\* A seeder that imports whatever the count is.
SeedCountAlwaysFetch ==
    /\ seeder.pc = "count"
    /\ SeedStep("fetch")
    /\ UNCHANGED <<users, characters, session, inflight, nreq>>
    /\ last' = Quiet

\* const count = await charsCol.countDocuments()
SeedCount ==
    /\ seeder.pc = "count"
    /\ SeedStep(IF Len(characters) = 0 THEN "fetch" ELSE "done")
    /\ UNCHANGED <<users, characters, session, inflight, nreq>>
    /\ last' = Quiet

\* const response = await fetch(GITHUB_URL)
SeedFetch ==
    /\ seeder.pc = "fetch"
    /\ SeedStep("json")
    /\ UNCHANGED <<users, characters, session, inflight, nreq>>
    /\ last' = Quiet

\* const data = await response.json()
SeedJson ==
    /\ seeder.pc = "json"
    /\ \E data \in Datasets : seeder' = [seeder EXCEPT !.pc = "insertMany", !.data = data]
    /\ UNCHANGED <<users, characters, session, inflight, nreq>>
    /\ last' = Quiet

\* await charsCol.insertMany(data): the driver rejects an empty batch.
SeedInsertMany ==
    /\ seeder.pc = "insertMany"
    /\ IF seeder.data = <<>>
       THEN seeder' = [seeder EXCEPT !.pc = "failed", !.data = <<>>]
            /\ UNCHANGED characters
       ELSE seeder' = [seeder EXCEPT !.pc = "done", !.data = <<>>]
            /\ characters' = characters \o seeder.data
    /\ UNCHANGED <<users, session, inflight, nreq>>
    /\ last' = Quiet

SeedAwaits ==
    {"connect", "findAdmin", "insertAdmin", "findUser", "insertUser", "count",
     "fetch", "json", "insertMany"}

\* A catch block that undoes the accounts written so far.
SeedErrorRollback ==
    /\ seeder.pc \in SeedAwaits
    /\ seeder' = [seeder EXCEPT !.pc = "failed", !.data = <<>>]
    /\ users' = <<>>
    /\ UNCHANGED <<characters, session, inflight, nreq>>
    /\ last' = Quiet

\* Any awaited operation throws: catch (error) { console.error(...) }
SeedError ==
    /\ seeder.pc \in SeedAwaits
    /\ seeder' = [seeder EXCEPT !.pc = "failed", !.data = <<>>]
    /\ UNCHANGED <<users, characters, session, inflight, nreq>>
    /\ last' = Quiet

\* The process starts again: the module body runs connectAndSeedDatabase() (line 92)
\* with a new, empty session store; the collections persist.
Restart ==
    /\ seeder.pc \in {"done", "failed"}
    /\ seeder' = [pc |-> "connect", data |-> <<>>, prev |-> seeder.pc]
    /\ session' = [b \in Browsers |-> NoUser]
    /\ inflight' = EmptyBag
    /\ UNCHANGED <<users, characters, nreq>>
    /\ last' = Quiet

\* The session cookie's maxAge (line 36) runs out.
Expire(b) ==
    /\ session[b] # NoUser
    /\ session' = [session EXCEPT ![b] = NoUser]
    /\ UNCHANGED <<users, characters, seeder, inflight, nreq>>
    /\ last' = Quiet

(***************************************************************************)
(* Security middleware (lines 99-113).                                      *)
(***************************************************************************)
\* A requireLogin that lets every request through.
requireLoginOpen(b) == "next"

\* requireLogin: next() when the session holds a user, else the redirect.
requireLogin(b) == IF session[b] # NoUser THEN "next" ELSE "redirect"

\* A requireAdmin that forgets the role.
requireAdminAnyUser(b) == IF session[b] # NoUser THEN "next" ELSE "forbidden"

\* requireAdmin: next() when the session's user is an ADMIN, else the 403 view.
requireAdmin(b) ==
    IF session[b] # NoUser /\ session[b].role = "ADMIN" THEN "next" ELSE "forbidden"

LoginRedirect(route) == Resp(route, 302, "redirect", "/login")

Forbidden(route) ==
    [Resp(route, 403, "render", "error") EXCEPT !.msg = "Geen toegang. Alleen voor admins."]

\* The middleware chain of a guarded route: the request reaches its handler (and is
\* suspended at the handler's first await, as req) or is answered by a guard.
Guarded(route, b, admin, req) ==
    /\ Accept
    /\ IF requireLogin(b) # "next"
       THEN last' = LoginRedirect(route) /\ UNCHANGED inflight
       ELSE IF admin /\ requireAdmin(b) # "next"
       THEN last' = Forbidden(route) /\ UNCHANGED inflight
       ELSE Suspend(req) /\ last' = Quiet
    /\ UNCHANGED <<users, characters, session, seeder>>

\* A handler without try/catch whose awaited storage operation rejects: the handler
\* sends nothing.
Unhandled(route) == Resp(route, 0, "none", "")

(***************************************************************************)
(* Authentication routes (lines 116-166).                                   *)
(***************************************************************************)
\* app.get('/login') and app.get('/register')
GetForm(route, view, b) ==
    /\ Accept
    /\ last' = IF session[b] # NoUser THEN Resp(route, 302, "redirect", "/characters")
               ELSE Resp(route, 200, "render", view)
    /\ UNCHANGED <<users, characters, session, seeder, inflight>>

GetLogin(b) ==
    /\ GetForm("GET /login", "login", b)

GetRegister(b) ==
    /\ GetForm("GET /register", "register", b)

\* app.post('/login'), up to the await of findOne
PostLogin(b, username, password) ==
    /\ Accept
    /\ Suspend([Req("POST /login", "findOne", b) EXCEPT
                    !.username = username, !.password = password])
    /\ UNCHANGED <<users, characters, session, seeder>>
    /\ last' = Quiet

\* A refusal that tells the two causes apart.
LoginErrorByCause(account) ==
    IF account = NoAccount THEN "Gebruiker bestaat niet." ELSE "Wachtwoord onjuist."

\* The message of a refused login.
LoginError(account) == "Gebruikersnaam of wachtwoord onjuist."

LoginRefused(account) ==
    [Resp("POST /login", 200, "render", "login") EXCEPT !.msg = LoginError(account)]

\* findOne returns: no account ends the request, an account goes on to bcrypt.compare
PostLoginFound(r) ==
    /\ r \in Suspended("POST /login", "findOne")
    /\ LET user == findOne(users, r.username) IN
       IF user # NoAccount
       THEN /\ inflight' = (inflight (-) SetToBag({r}))
                           (+) SetToBag({[r EXCEPT !.pc = "compare", !.account = user]})
            /\ last' = Quiet
       ELSE Resume(r) /\ last' = LoginRefused(user)
    /\ UNCHANGED <<users, characters, session, seeder, nreq>>

\* A session that does not take the account's role.
SessionUserNoRole(user) ==
    [_id |-> oidToString(user._id), username |-> user.username, role |-> "USER"]

\* A session that makes every user an administrator.
SessionUserAsAdmin(user) ==
    [_id |-> oidToString(user._id), username |-> user.username, role |-> "ADMIN"]

\* The identity the session takes from an account.
SessionUser(user) ==
    [_id |-> oidToString(user._id), username |-> user.username, role |-> user.role]

\* bcrypt.compare returns: the session is established, or the form is rendered again
PostLoginCompared(r) ==
    /\ r \in Suspended("POST /login", "compare")
    /\ Resume(r)
    /\ IF bcryptCompare(r.password, r.account.password)
       THEN /\ session' = [session EXCEPT ![r.b] = SessionUser(r.account)]
            /\ last' = Resp("POST /login", 302, "redirect", "/characters")
       ELSE /\ last' = LoginRefused(r.account)
            /\ UNCHANGED session
    /\ UNCHANGED <<users, characters, seeder, nreq>>

\* app.post('/register'), up to the await of findOne
PostRegister(username, password) ==
    /\ Accept
    /\ Suspend([Req("POST /register", "findOne", "") EXCEPT
                    !.username = username, !.password = password])
    /\ UNCHANGED <<users, characters, session, seeder>>
    /\ last' = Quiet

UsernameTaken ==
    [Resp("POST /register", 200, "render", "register") EXCEPT
        !.msg = "Gebruikersnaam bestaat al."]

\* A lookup that looks at the first account only.
ExistingHead(col, username) == col # <<>> /\ Head(col).username = username

\* Whether the lookup of POST /register found the name in use.
Existing(col, username) == findOne(col, username) # NoAccount

\* findOne returns: an existing account ends the request
PostRegisterFound(r) ==
    /\ r \in Suspended("POST /register", "findOne")
    /\ IF Existing(users, r.username)
       THEN Resume(r) /\ last' = UsernameTaken
       ELSE /\ inflight' = (inflight (-) SetToBag({r}))
                           (+) SetToBag({[r EXCEPT !.pc = "insertOne"]})
            /\ last' = Quiet
    /\ UNCHANGED <<users, characters, session, seeder, nreq>>

\* A registration that trusts the form for the role.
RegisterRoleFromForm(r) == IF r.username = "admin" THEN "ADMIN" ELSE "USER"

\* The role POST /register gives the account it inserts.
RegisterRole(r) == "USER"

\* the hash, then insertOne returns
PostRegisterInserted(r) ==
    /\ r \in Suspended("POST /register", "insertOne")
    /\ Resume(r)
    /\ users' = insertOne(users, r.username, bcryptHash(r.password), RegisterRole(r))
    /\ last' = Resp("POST /register", 302, "redirect", "/login")
    /\ UNCHANGED <<characters, session, seeder, nreq>>

\* What Express 5 sends when the promise of a handler rejects; Express 4 does not
\* see the rejection.
DefaultError(route) == Resp(route, 500, "send", "Internal Server Error")

\* findOne or insertOne rejects in POST /login or POST /register (no try/catch):
\* the handler sends nothing, and what the client gets is up to the Express
\* version the build resolves.
AuthStorageError(r) ==
    /\ r \in BagToSet(inflight)
    /\ r.route \in {"POST /login", "POST /register"}
    /\ r.pc \in {"findOne", "insertOne"}
    /\ Resume(r)
    /\ last' \in {Unhandled(r.route), DefaultError(r.route)}
    /\ UNCHANGED <<users, characters, session, seeder, nreq>>

\* A logout that empties the whole session store.
PostLogoutAll(b) ==
    /\ Accept
    /\ session' = [c \in Browsers |-> NoUser]
    /\ last' = Resp("POST /logout", 302, "redirect", "/login")
    /\ UNCHANGED <<users, characters, seeder, inflight>>

\* app.post('/logout'): req.session.destroy, then the redirect
PostLogout(b) ==
    /\ Accept
    /\ session' = [session EXCEPT ![b] = NoUser]
    /\ last' = Resp("POST /logout", 302, "redirect", "/login")
    /\ UNCHANGED <<users, characters, seeder, inflight>>

\* app.get('/')
GetRoot ==
    /\ Accept
    /\ last' = Resp("GET /", 302, "redirect", "/characters")
    /\ UNCHANGED <<users, characters, session, seeder, inflight>>

(***************************************************************************)
(* The roster query of GET /characters (lines 178-200).                     *)
(***************************************************************************)
\* String.prototype.toLowerCase on code units
toLowerCase(s) == [i \in 1..Len(s) |-> IF s[i] \in 65..90 THEN s[i] + 32 ELSE s[i]]

\* A search that matches at the start of the name only.
includesAtStart(s, t) == Len(t) <= Len(s) /\ SubSeq(s, 1, Len(t)) = t

\* String.prototype.includes
includes(s, t) == \E i \in 0..(Len(s) - Len(t)) : SubSeq(s, i + 1, i + Len(t)) = t

\* characters.filter(c => c.name.toLowerCase().includes(search.toLowerCase()))
filter(col, search) ==
    IF search = <<>> THEN col
    ELSE SelectSeq(col, LAMBDA c : includes(toLowerCase(c.name), toLowerCase(search)))

\* The value the comparator reads for a record: a[sortField], or a.unit.name.
Str(s) == [t |-> "string", s |-> s, n |-> NaN]
Number(n) == [t |-> "number", s |-> <<>>, n |-> n]
Undefined == [t |-> "undefined", s |-> <<>>, n |-> NaN]

sortValue(c, sortField) ==
    CASE sortField = "unit" -> Str(c.unit.name)
      [] sortField = "name" -> Str(c.name)
      [] sortField = "age" -> Number(c.age)
      [] sortField = "isActive" -> Number(Num(IF c.isActive THEN 1 ELSE 0))
      [] OTHER -> Undefined

\* < on strings: by code units
RECURSIVE strLess(_, _)
strLess(a, b) ==
    IF b = <<>> THEN FALSE
    ELSE IF a = <<>> THEN TRUE
    ELSE IF Head(a) # Head(b) THEN Head(a) < Head(b)
    ELSE strLess(Tail(a), Tail(b))

\* valA < valB as JavaScript evaluates it on two values of one field
less(x, y) ==
    CASE x.t = "string" /\ y.t = "string" -> strLess(x.s, y.s)
      [] x.t = "number" /\ y.t = "number" -> ~x.n.nan /\ ~y.n.nan /\ x.n.v < y.n.v
      [] OTHER -> FALSE

\* A comparator that puts a record before the records it ties with.
comparatorTiesFirst(a, b, sortField, sortOrder) ==
    IF less(sortValue(b, sortField), sortValue(a, sortField)) THEN 1 * sortOrder
    ELSE (-1) * sortOrder

\* The comparator handed to characters.sort
comparator(a, b, sortField, sortOrder) ==
    LET valA == sortValue(a, sortField)
        valB == sortValue(b, sortField)
    IN  IF less(valA, valB) THEN (-1) * sortOrder
        ELSE IF less(valB, valA) THEN 1 * sortOrder
        ELSE 0

\* Array.prototype.sort: a stable insertion of each element in turn
RECURSIVE insertSorted(_, _, _, _)
insertSorted(sorted, x, sortField, sortOrder) ==
    IF sorted = <<>> THEN <<x>>
    ELSE LET n == Len(sorted) IN
         IF comparator(x, sorted[n], sortField, sortOrder) < 0
         THEN Append(insertSorted(SubSeq(sorted, 1, n - 1), x, sortField, sortOrder),
                     sorted[n])
         ELSE Append(sorted, x)

RECURSIVE sort(_, _, _)
sort(col, sortField, sortOrder) ==
    IF col = <<>> THEN <<>>
    ELSE LET n == Len(col) IN
         insertSorted(sort(SubSeq(col, 1, n - 1), sortField, sortOrder), col[n],
                      sortField, sortOrder)

\* The listing of GET /characters for a query
listing(col, query) ==
    sort(filter(col, query.search),
         IF query.sort = "" THEN "name" ELSE query.sort,
         IF query.order = "desc" THEN -1 ELSE 1)

\* no parameters; "B" by unit name, descending
Queries ==
    { NoQuery,
      [search |-> <<66>>, sort |-> "unit", order |-> "desc"] }

(***************************************************************************)
(* Application routes (lines 173-281).                                      *)
(***************************************************************************)
\* collection.find / findOne({ id }) on the characters
findById(col, id) == SelectSeq(col, LAMBDA c : c.id = id)

\* An update that ignores the filter and sets the fields of every character.
updateEvery(col, id, set) ==
    [i \in 1..Len(col) |-> [col[i] EXCEPT !.name = set.name, !.age = set.age,
                                          !.description = set.description,
                                          !.isActive = set.isActive]]

\* collection.updateOne({ id }, { $set: ... }): the first match is updated
RECURSIVE updateOne(_, _, _)
updateOne(col, id, set) ==
    IF col = <<>> THEN <<>>
    ELSE IF Head(col).id = id
         THEN <<[Head(col) EXCEPT !.name = set.name, !.age = set.age,
                                  !.description = set.description,
                                  !.isActive = set.isActive]>> \o Tail(col)
         ELSE <<Head(col)>> \o updateOne(Tail(col), id, set)

\* The $set document POST /characters/:id/edit builds from the body
editSet(body) ==
    [name |-> body.name, age |-> parseInt(body.age), description |-> body.description,
     isActive |-> (body.isActive = "true")]

\* A unit list that keeps the first copy of a unit it sees.
RECURSIVE uniqueUnitsFirstSeen(_)
uniqueUnitsFirstSeen(col) ==
    IF col = <<>> THEN <<>>
    ELSE LET n == Len(col)
             rest == uniqueUnitsFirstSeen(SubSeq(col, 1, n - 1))
             u == col[n].unit
         IN  IF \E i \in 1..Len(rest) : rest[i].id = u.id THEN rest ELSE Append(rest, u)

\* Array.from(new Map(characters.map(c => [c.unit.id, c.unit])).values())
RECURSIVE uniqueUnits(_)
uniqueUnits(col) ==
    IF col = <<>> THEN <<>>
    ELSE LET n == Len(col)
             rest == uniqueUnits(SubSeq(col, 1, n - 1))
             u == col[n].unit
         IN  IF \E i \in 1..Len(rest) : rest[i].id = u.id
             THEN [i \in 1..Len(rest) |-> IF rest[i].id = u.id THEN u ELSE rest[i]]
             ELSE Append(rest, u)

UnitIds == {"u1", "u2", "zz"}

GetCharacters(b, query) ==
 /\ Guarded("GET /characters", b, FALSE,
            [Req("GET /characters", "find", "") EXCEPT !.query = query])

GetCharactersFound(r) ==
    /\ r \in Suspended("GET /characters", "find")
    /\ Resume(r)
    /\ last' = [Resp(r.route, 200, "render", "index") EXCEPT
                    !.chars = listing(characters, r.query)]
    /\ UNCHANGED <<users, characters, session, seeder, nreq>>

GetCharacter(b, id) ==
 /\ Guarded("GET /characters/:id", b, FALSE,
            [Req("GET /characters/:id", "findOne", "") EXCEPT !.id = id])

GetEdit(b, id) ==
 /\ Guarded("GET /characters/:id/edit", b, TRUE,
            [Req("GET /characters/:id/edit", "findOne", "") EXCEPT !.id = id])

\* findOne returns in GET /characters/:id and GET /characters/:id/edit
CharacterFound(r) ==
    /\ r \in Suspended("GET /characters/:id", "findOne")
             \cup Suspended("GET /characters/:id/edit", "findOne")
    /\ Resume(r)
    /\ LET char == findById(characters, r.id) IN
       last' = IF char = <<>> THEN Resp(r.route, 404, "send", "Niet gevonden")
               ELSE [Resp(r.route, 200, "render",
                          IF r.route = "GET /characters/:id" THEN "detail" ELSE "edit")
                     EXCEPT !.chars = <<Head(char)>>]
    /\ UNCHANGED <<users, characters, session, seeder, nreq>>

PostEdit(b, id, body) ==
 /\ Guarded("POST /characters/:id/edit", b, TRUE,
            [Req("POST /characters/:id/edit", "updateOne", "") EXCEPT
                !.id = id, !.body = body])

PostEditUpdated(r) ==
    /\ r \in Suspended("POST /characters/:id/edit", "updateOne")
    /\ Resume(r)
    /\ characters' = updateOne(characters, r.id, editSet(r.body))
    /\ last' = Resp(r.route, 302, "redirect", "/characters/" \o r.id)
    /\ UNCHANGED <<users, session, seeder, nreq>>

GetUnits(b) ==
    /\ Guarded("GET /units", b, FALSE, Req("GET /units", "find", ""))

GetUnitsFound(r) ==
    /\ r \in Suspended("GET /units", "find")
    /\ Resume(r)
    /\ last' = [Resp(r.route, 200, "render", "units") EXCEPT
                    !.chars = uniqueUnits(characters)]
    /\ UNCHANGED <<users, characters, session, seeder, nreq>>

GetUnit(b, id) ==
 /\ Guarded("GET /units/:id", b, FALSE,
            [Req("GET /units/:id", "find", "") EXCEPT !.id = id])

\* find({ "unit.id": unitId }).toArray() returns
GetUnitMembers(r) ==
    /\ r \in Suspended("GET /units/:id", "find")
    /\ inflight' = (inflight (-) SetToBag({r}))
                   (+) SetToBag({[r EXCEPT !.pc = "findOne",
                        !.members = SelectSeq(characters, LAMBDA c : c.unit.id = r.id)]})
    /\ UNCHANGED <<users, characters, session, seeder, nreq>>
    /\ last' = Quiet

\* A unit view that prefers the first member's embedded unit to the emblem record.
GetUnitEmbeddedFirst(r) ==
    /\ r \in Suspended("GET /units/:id", "findOne")
    /\ Resume(r)
    /\ LET unitInfo == SelectSeq(Emblems, LAMBDA e : e.id = r.id)
           finalUnitData == IF Len(r.members) > 0 THEN <<r.members[1].unit>>
                            ELSE IF unitInfo # <<>> THEN <<Head(unitInfo)>>
                            ELSE <<>>
       IN  last' = IF finalUnitData = <<>>
                   THEN Resp(r.route, 404, "send", "Unit " \o r.id \o " niet gevonden.")
                   ELSE [Resp(r.route, 200, "render", "unit-detail") EXCEPT
                            !.unit = Head(finalUnitData), !.chars = r.members]
    /\ UNCHANGED <<users, characters, session, seeder, nreq>>

\* collection('emblems').findOne({ id: unitId }) returns
GetUnitEmblem(r) ==
    /\ r \in Suspended("GET /units/:id", "findOne")
    /\ Resume(r)
    /\ LET unitInfo == SelectSeq(Emblems, LAMBDA e : e.id = r.id)
           finalUnitData == IF unitInfo # <<>> THEN <<Head(unitInfo)>>
                            ELSE IF Len(r.members) > 0 THEN <<r.members[1].unit>>
                            ELSE <<>>
       IN  last' = IF finalUnitData = <<>>
                   THEN Resp(r.route, 404, "send", "Unit " \o r.id \o " niet gevonden.")
                   ELSE [Resp(r.route, 200, "render", "unit-detail") EXCEPT
                            !.unit = Head(finalUnitData), !.chars = r.members]
    /\ UNCHANGED <<users, characters, session, seeder, nreq>>

GetUsers(b) ==
    /\ Guarded("GET /users", b, TRUE, Req("GET /users", "find", ""))

GetUsersFound(r) ==
    /\ r \in Suspended("GET /users", "find")
    /\ Resume(r)
    /\ last' = [Resp(r.route, 200, "render", "users") EXCEPT !.accounts = users]
    /\ UNCHANGED <<users, characters, session, seeder, nreq>>

\* The text each route sends with status 500 from its catch block.
ErrorText(route) ==
    CASE route = "GET /characters" -> "Database fout"
      [] route = "POST /characters/:id/edit" -> "Error bij updaten"
      [] route = "GET /units/:id" -> "Error bij ophalen unit"
      [] route = "GET /users" -> "Error bij ophalen gebruikers"
      [] OTHER -> "Error"

AppRoutes ==
    {"GET /characters", "GET /characters/:id", "GET /characters/:id/edit",
     "POST /characters/:id/edit", "GET /units", "GET /units/:id", "GET /users"}

\* The awaited storage operation of a route with try/catch rejects
AppStorageError(r) ==
    /\ r \in BagToSet(inflight)
    /\ r.route \in AppRoutes
    /\ Resume(r)
    /\ last' = Resp(r.route, 500, "send", ErrorText(r.route))
    /\ UNCHANGED <<users, characters, session, seeder, nreq>>

(***************************************************************************)
(* The system.                                                              *)
(***************************************************************************)
\* The seeder's lookups of the two default names.
SeedLookups == SeedFindAdmin \/ SeedFindUser

SeedOthers ==
    \/ SeedConnect \/ SeedInsertAdmin \/ SeedInsertUser \/ SeedCount \/ SeedFetch
    \/ SeedJson \/ SeedInsertMany \/ SeedError

Seed == SeedLookups \/ SeedOthers

\* A request arrives and runs up to its first await.
Arrive ==
    \/ \E b \in Browsers : GetLogin(b) \/ GetRegister(b) \/ PostLogout(b)
    \/ GetRoot
    \/ \E b \in Browsers, f \in Logins : PostLogin(b, f.username, f.password)
    \/ \E f \in Registrations : PostRegister(f.username, f.password)
    \/ \E b \in Browsers, q \in Queries : GetCharacters(b, q)
    \/ \E b \in Browsers, id \in CharIds : GetCharacter(b, id) \/ GetEdit(b, id)
    \/ \E b \in Browsers, id \in CharIds, body \in EditBodies : PostEdit(b, id, body)
    \/ \E b \in Browsers : GetUnits(b) \/ GetUsers(b)
    \/ \E b \in Browsers, id \in UnitIds : GetUnit(b, id)

\* The lookup of a POST /register returns.
RegisterLookup == \E r \in BagToSet(inflight) : PostRegisterFound(r)

\* Any other awaited operation of a suspended request returns, or rejects.
ContinueOthers ==
    \/ \E r \in BagToSet(inflight) : PostLoginFound(r)
    \/ \E r \in BagToSet(inflight) : PostLoginCompared(r)
    \/ \E r \in BagToSet(inflight) : PostRegisterInserted(r)
    \/ \E r \in BagToSet(inflight) : AuthStorageError(r)
    \/ \E r \in BagToSet(inflight) : GetCharactersFound(r)
    \/ \E r \in BagToSet(inflight) : CharacterFound(r)
    \/ \E r \in BagToSet(inflight) : PostEditUpdated(r)
    \/ \E r \in BagToSet(inflight) : GetUnitsFound(r)
    \/ \E r \in BagToSet(inflight) : GetUnitMembers(r)
    \/ \E r \in BagToSet(inflight) : GetUnitEmblem(r)
    \/ \E r \in BagToSet(inflight) : GetUsersFound(r)
    \/ \E r \in BagToSet(inflight) : AppStorageError(r)

Next ==
    \/ Seed
    \/ Restart
    \/ \E b \in Browsers : Expire(b)
    \/ Arrive
    \/ RegisterLookup
    \/ ContinueOthers

Spec == Init /\ [][Next]_vars

(***************************************************************************)
(* The roster queries on their own: a logged-in browser lists the           *)
(* characters and the units of every roster drawn from a pool of records.   *)
(***************************************************************************)
\* "Bo" of unit "Red", "al" of unit "Bl", and "bo" whose age an edit with a
\* non-numeric age field has set to NaN and whose copy of unit u1 differs.
RosterPool ==
    { Char("c1", <<66, 111>>, 30, "Sgt", Unit("u1", <<82, 101, 100>>, TRUE)),
      Char("c2", <<97, 108>>, 25, "Cpt", Unit("u2", <<66, 108>>, FALSE)),
      [Char("c3", <<98, 111>>, 0, "Pvt", Unit("u1", <<82, 101, 100>>, FALSE))
          EXCEPT !.age = NaN] }

\* The character collections: every sequence of at most three pool records.
Rosters ==
    {<<>>} \cup {<<a>> : a \in RosterPool}
           \cup {<<a, b>> : a \in RosterPool, b \in RosterPool}
           \cup {<<a, b, c>> : a \in RosterPool, b \in RosterPool, c \in RosterPool}

\* req.query of GET /characters: search is "", "BO" or "L".
ListingQueries ==
    { [search |-> s, sort |-> f, order |-> o] :
        s \in {<<>>, <<66, 79>>, <<76>>}, f \in {"", "unit", "age"},
        o \in {"", "desc", "asc"} }

\* The state after the seeder has finished and browser b1 has logged in as "user".
InitRoster ==
    /\ users = insertOne(insertOne(<<>>, "admin", bcryptHash("admin123"), "ADMIN"),
                         "user", bcryptHash("user123"), "USER")
    /\ characters \in Rosters
    /\ session = [b \in Browsers |-> IF b = "b1" THEN SessionUser(users[2]) ELSE NoUser]
    /\ seeder = [pc |-> IF characters = <<>> THEN "failed" ELSE "done", data |-> <<>>,
                 prev |-> "none"]
    /\ inflight = EmptyBag
    /\ nreq = 1
    /\ last = Resp("POST /login", 302, "redirect", "/characters")

NextRoster ==
    \/ \E b \in Browsers, q \in ListingQueries : GetCharacters(b, q)
    \/ \E r \in BagToSet(inflight) : GetCharactersFound(r)
    \/ \E b \in Browsers : GetUnits(b)
    \/ \E r \in BagToSet(inflight) : GetUnitsFound(r)

SpecRoster == InitRoster /\ [][NextRoster]_vars

(***************************************************************************)
(* The session gate.                                                        *)
(***************************************************************************)
\* The request was answered by the redirect to /login and its handler did not
\* run: nothing was suspended at a storage operation, nothing was written.
RedirectedToLogin(route) ==
    /\ last' = Resp(route, 302, "redirect", "/login")
    /\ UNCHANGED <<users, characters, session, inflight>>

\* Every request browser b can make to a guarded route is redirected to /login.
GuardedRedirected(b) ==
    /\ \A q \in Queries : GetCharacters(b, q) => RedirectedToLogin("GET /characters")
    /\ \A id \in CharIds :
        /\ GetCharacter(b, id) => RedirectedToLogin("GET /characters/:id")
        /\ GetEdit(b, id) => RedirectedToLogin("GET /characters/:id/edit")
        /\ \A body \in EditBodies :
             PostEdit(b, id, body) => RedirectedToLogin("POST /characters/:id/edit")
    /\ GetUnits(b) => RedirectedToLogin("GET /units")
    /\ \A id \in UnitIds : GetUnit(b, id) => RedirectedToLogin("GET /units/:id")
    /\ GetUsers(b) => RedirectedToLogin("GET /users")

\* C1: a request to a guarded route (the admin-guarded ones included) on a session
\* that holds no user is answered with the redirect to /login, not with the 403,
\* and the handler does not run: no storage operation is issued, nothing changes.
C1_AnonymousRedirected ==
    [][\A b \in Browsers : session[b] = NoUser => GuardedRedirected(b)]_vars

\* An anonymous POST to the admin-guarded edit route got the redirect, not the 403.
C1_Witness ==
    /\ last = Resp("POST /characters/:id/edit", 302, "redirect", "/login")
    /\ \A b \in Browsers : session[b] = NoUser
    /\ characters # <<>>

\* The request was answered by the fixed 403 view and nothing was written or read.
Denied(route) ==
    /\ last' = [Resp(route, 403, "render", "error") EXCEPT
                    !.msg = "Geen toegang. Alleen voor admins."]
    /\ UNCHANGED <<users, characters, session, inflight>>

\* C2: on the admin-guarded routes a request whose session role is USER gets the
\* fixed 403 response, and the characters and the accounts are left unchanged.
C2_UserForbidden ==
    [][\A b \in Browsers :
        (session[b] # NoUser /\ session[b].role = "USER") =>
            /\ \A id \in CharIds :
                /\ GetEdit(b, id) => Denied("GET /characters/:id/edit")
                /\ \A body \in EditBodies :
                     PostEdit(b, id, body) => Denied("POST /characters/:id/edit")
            /\ GetUsers(b) => Denied("GET /users")]_vars

\* A USER session posted an edit of an existing roster and got the 403.
C2_Witness ==
    /\ last.route = "POST /characters/:id/edit"
    /\ last.status = 403
    /\ \E b \in Browsers : session[b].role = "USER"
    /\ characters = RosterData

(***************************************************************************)
(* Accounts.                                                                *)
(***************************************************************************)
\* The accounts a step adds to the collection.
Added == {users'[i] : i \in (Len(users) + 1)..Len(users')}

\* C3: every account POST /register inserts has role USER; an account with role
\* ADMIN is only ever added by the seeder's insert of "admin".
C3_RegisterNeverAdmin ==
    [][/\ \A r \in BagToSet(inflight) :
            PostRegisterInserted(r) =>
                (Added # {} /\ \A a \in Added : a.role = "USER" /\ a.username = r.username)
       /\ (\E a \in Added : a.role = "ADMIN") => SeedInsertAdmin]_vars

\* POST /register for the name "admin" created an account, with role USER.
C3_Witness ==
    /\ last = Resp("POST /register", 302, "redirect", "/login")
    /\ \E i \in 1..Len(users) : users[i].username = "admin" /\ users[i].role = "USER"

\* Whether the collection holds an account with this username.
HasAccount(col, username) == \E i \in 1..Len(col) : col[i].username = username

\* C4: when the lookup of a POST /register finds its username in use, the request
\* ends with the "username taken" form and the accounts are unchanged; the request
\* goes on to no insert.
C4_UsernameTaken ==
    [][\A r \in BagToSet(inflight) :
        (PostRegisterFound(r) /\ HasAccount(users, r.username)) =>
            /\ last' = [Resp("POST /register", 200, "render", "register") EXCEPT
                            !.msg = "Gebruikersnaam bestaat al."]
            /\ users' = users
            /\ inflight' = inflight (-) SetToBag({r})]_vars

\* A registration was refused because the name was in use.
C4_Witness ==
    /\ last.route = "POST /register"
    /\ last.msg = "Gebruikersnaam bestaat al."
    /\ HasAccount(users, "user")

\* How many check-then-insert sequences for a username are between their lookup
\* (which found the name free) and their insert.
PendingInserts(username) ==
    LET regs == {r \in Suspended("POST /register", "insertOne") : r.username = username}
        count[S \in SUBSET regs] ==
            IF S = {} THEN 0
            ELSE LET r == CHOOSE x \in S : TRUE
                 IN  CopiesIn(r, inflight) + count[S \ {r}]
    IN  count[regs]
        + (IF seeder.pc = "insertAdmin" /\ username = "admin" THEN 1 ELSE 0)
        + (IF seeder.pc = "insertUser" /\ username = "user" THEN 1 ELSE 0)

\* A pending insert whose lookup is out of date: the name is in use by now.
Stale(username) == PendingInserts(username) >= 1 /\ HasAccount(users, username)

\* C5 as stated: in every reachable state, under any interleaving of POST /register
\* requests with each other and with the seeder, no two accounts share a username.
C5_UniqueUsernames ==
    \A i, j \in 1..Len(users) : i # j => users[i].username # users[j].username

\* C5, amended: no two accounts share a username unless two check-then-insert
\* sequences (of POST /register or of the seeder) for that username were between
\* their lookup and their insert at the same time: a step gives two accounts one
\* name only when a pending insert's lookup is stale, and a lookup becomes stale
\* only when two sequences for its name are pending together.
C5_UniqueUnlessOverlap ==
    [][/\ (C5_UniqueUsernames /\ ~C5_UniqueUsernames') => \E u \in Usernames : Stale(u)
       /\ \A u \in Usernames :
            (~Stale(u) /\ Stale(u)') => PendingInserts(u) >= 2]_vars

\* Three different names were inserted, by the seeder and by a registration.
C5_Witness ==
    /\ Len(users) = 3
    /\ \A username \in Usernames : HasAccount(users, username)
    /\ last = Resp("POST /register", 302, "redirect", "/login")

(***************************************************************************)
(* Login and logout.                                                        *)
(***************************************************************************)
\* The one outcome of a refused login.
Refused ==
    /\ last' = [Resp("POST /login", 200, "render", "login") EXCEPT
                    !.msg = "Gebruikersnaam of wachtwoord onjuist."]
    /\ UNCHANGED <<session, users, characters>>

\* C6: a login for a username without account and a login with a wrong password
\* end the same way: the login form with the same message, no session user set,
\* the stores unchanged.
C6_RefusalsAlike ==
    [][\A r \in BagToSet(inflight) :
        /\ (PostLoginFound(r) /\ ~HasAccount(users, r.username)) => Refused
        /\ (PostLoginCompared(r) /\ ~bcryptCompare(r.password, r.account.password))
               => Refused]_vars

\* A login was refused, and a login with a wrong password for an existing account
\* is at its bcrypt.compare.
C6_Witness ==
    /\ last.route = "POST /login"
    /\ last.msg = "Gebruikersnaam of wachtwoord onjuist."
    /\ \E r \in Suspended("POST /login", "compare") :
          ~bcryptCompare(r.password, r.account.password)

\* C7: a login whose account exists and whose password matches sets the session's
\* user to the (_id, username, role) of that account and redirects to /characters;
\* the session keeps that user until a logout, the cookie's expiry or the loss of
\* the session store, and while it does, GET /characters passes requireLogin and is
\* answered, once its read returns, with the listing and status 200.
C7_LoginEstablishesSession ==
    [][/\ \A r \in BagToSet(inflight) :
            (PostLoginCompared(r) /\ bcryptCompare(r.password, r.account.password)) =>
                /\ \E i \in 1..Len(users) :
                      /\ users[i].username = r.username
                      /\ session'[r.b] = [_id |-> oidToString(users[i]._id),
                                          username |-> users[i].username,
                                          role |-> users[i].role]
                /\ last' = Resp("POST /login", 302, "redirect", "/characters")
       /\ \A b \in Browsers :
            /\ (session[b] # NoUser /\ session'[b] = NoUser) =>
                   (PostLogout(b) \/ Expire(b) \/ Restart)
            /\ session[b] # NoUser =>
                   \A q \in Queries :
                       GetCharacters(b, q) =>
                           /\ last' = Quiet
                           /\ \E r \in BagToSet(inflight') :
                                 /\ r.route = "GET /characters"
                                 /\ r.pc = "find"
                                 /\ r.query = q
                                 /\ CopiesIn(r, inflight') = CopiesIn(r, inflight) + 1
       /\ \A r \in BagToSet(inflight) :
            GetCharactersFound(r) =>
                /\ last'.route = "GET /characters"
                /\ last'.status = 200
                /\ last'.text = "index"]_vars

\* After a login as the seeded ADMIN, GET /characters was answered with the listing.
C7_Witness ==
    /\ last.route = "GET /characters"
    /\ last.status = 200
    /\ last.chars # <<>>
    /\ \E b \in Browsers : session[b] = [_id |-> "oid1", username |-> "admin", role |-> "ADMIN"]

\* C8: POST /logout destroys the session of its browser, whether or not it holds a
\* user, and redirects to /login; the other sessions are unaffected; from then on
\* the browser's requests to guarded routes are redirected to /login until a POST
\* /login succeeds on it.
C8_LogoutDestroysSession ==
    [][\A b \in Browsers :
        /\ PostLogout(b) =>
              /\ session'[b] = NoUser
              /\ last' = Resp("POST /logout", 302, "redirect", "/login")
              /\ \A c \in Browsers \ {b} : session'[c] = session[c]
              /\ UNCHANGED <<users, characters>>
        /\ (session[b] = NoUser /\ session'[b] # NoUser) =>
              \E r \in Suspended("POST /login", "compare") :
                  /\ r.b = b
                  /\ bcryptCompare(r.password, r.account.password)
                  /\ last' = Resp("POST /login", 302, "redirect", "/characters")
        /\ session[b] = NoUser => GuardedRedirected(b)]_vars

\* One browser logged out while the other one stays logged in.
C8_Witness ==
    /\ last = Resp("POST /logout", 302, "redirect", "/login")
    /\ session["b1"] = NoUser
    /\ session["b2"] # NoUser

(***************************************************************************)
(* The seeder.                                                              *)
(***************************************************************************)
\* How many accounts carry a username.
CountNamed(username) == Cardinality({i \in 1..Len(users) : users[i].username = username})

\* C9 as stated: in a run of the seeder that follows a successful run, the account
\* collection holds exactly one "admin" and one "user" and no fetch is made.
C9_ExactlyOneEach ==
    seeder.prev = "done" =>
        /\ CountNamed("admin") = 1
        /\ CountNamed("user") = 1
        /\ seeder.pc \notin {"fetch", "json", "insertMany"}

\* C9, amended: a run of the seeder that follows a successful run changes nothing:
\* it inserts no account (the accounts named "admin" and "user" are there, at least
\* one of each), makes no fetch, and leaves the non-empty character collection alone.
C9_SecondRunChangesNothing ==
    /\ [](seeder.prev = "done" =>
            /\ CountNamed("admin") >= 1
            /\ CountNamed("user") >= 1
            /\ characters # <<>>
            /\ seeder.pc \notin {"insertAdmin", "insertUser", "fetch", "json", "insertMany"})
    /\ [][(seeder.prev = "done" /\ Seed) => (users' = users /\ characters' = characters)]_vars

\* A second run went through after a successful first one.
C9_Witness ==
    /\ seeder.prev = "done"
    /\ seeder.pc = "done"
    /\ characters = RosterData

\* C10: once the seeder has completed without error, there is an account "admin"
\* with role ADMIN and an account "user" with role USER, whatever registrations
\* were served before or during the run.
C10_DefaultAccounts ==
    seeder.pc = "done" =>
        /\ \E i \in 1..Len(users) : users[i].username = "admin" /\ users[i].role = "ADMIN"
        /\ \E i \in 1..Len(users) : users[i].username = "user" /\ users[i].role = "USER"

\* Whether one sequence starts with another.
IsPrefix(s, t) == Len(s) <= Len(t) /\ SubSeq(t, 1, Len(s)) = s

\* C11: whichever awaited step of connectAndSeedDatabase fails, the error is caught
\* and the seeder finishes (it is never left stuck at an await); the failing step
\* writes nothing, so the accounts and characters written before it remain and the
\* character collection is as it was; no seeder step ever removes a record; and
\* the server accepts requests in every state, whatever the seeder's outcome.
C11_SeederFailureSwallowed ==
    /\ [](/\ seeder.pc \in SeedAwaits => ENABLED SeedError
          /\ nreq < MaxRequests => ENABLED Arrive)
    /\ [][/\ SeedError =>
               /\ seeder'.pc = "failed"
               /\ UNCHANGED <<users, characters, session, inflight>>
          /\ (SeedInsertMany /\ seeder'.pc = "failed") => UNCHANGED <<users, characters>>
          /\ Seed => (IsPrefix(users, users') /\ IsPrefix(characters, characters'))]_vars

\* The seeder failed after it had inserted both default accounts and before any
\* character was stored, and the server then served a login for the seeded admin.
C11_Witness ==
    /\ seeder.pc = "failed"
    /\ seeder.prev = "none"
    /\ Len(users) = 2
    /\ characters = <<>>
    /\ last = Resp("POST /login", 302, "redirect", "/characters")

(***************************************************************************)
(* The roster queries.                                                      *)
(***************************************************************************)
\* A string with its capital letters replaced by the small ones.
Folded(s) == [i \in 1..Len(s) |-> IF 65 <= s[i] /\ s[i] <= 90 THEN s[i] + 32 ELSE s[i]]

\* Whether t occurs in s as a contiguous run of code units.
Contains(s, t) ==
    \E k \in 0..(Len(s) - Len(t)) : \A i \in 1..Len(t) : s[k + i] = t[i]

\* How many times a record occurs in a sequence.
Occurrences(seq, x) == Cardinality({i \in 1..Len(seq) : seq[i] = x})

Range(seq) == {seq[i] : i \in 1..Len(seq)}

\* C12: the listing of GET /characters holds exactly the records of the collection
\* whose lower-cased name contains the lower-cased search string: every matching
\* record is returned as often as the collection holds it, no other record is
\* returned, and for the empty search string the whole collection is returned.
C12_ListingFiltered ==
    [][\A r \in BagToSet(inflight) :
        GetCharactersFound(r) =>
            /\ \A c \in Range(characters) \cup Range(last'.chars) :
                  Occurrences(last'.chars, c) =
                      IF Contains(Folded(c.name), Folded(r.query.search))
                      THEN Occurrences(characters, c) ELSE 0
            /\ r.query.search = <<>> => Len(last'.chars) = Len(characters)]_vars

\* Of the three records "Bo", "al", "bo" a listing returned the two whose name
\* contains "bo" whatever the case, and left "al" out.
C12_Witness ==
    /\ last.route = "GET /characters"
    /\ last.status = 200
    /\ Len(characters) = 3
    /\ Range(last.chars) = {c \in RosterPool : Folded(c.name) = <<98, 111>>}
    /\ Len(last.chars) = 2
    /\ \E i \in 1..3 : characters[i].name = <<97, 108>>

\* The sort key of a record: the value of the requested field (the name when no
\* field is requested), and for the field unit the embedded unit's name.
SortKey(c, field) ==
    CASE field = "" \/ field = "name" -> Str(c.name)
      [] field = "unit" -> Str(c.unit.name)
      [] field = "age" -> Number(c.age)
      [] OTHER -> Undefined

\* C13: the listing of GET /characters is a permutation of the filtered records in
\* the order of the sort key: no record comes after a record with a greater key
\* (with order "desc": after a record with a smaller key).
C13_ListingOrdered ==
    [][\A r \in BagToSet(inflight) :
        GetCharactersFound(r) =>
            LET out == last'.chars
                kept == filter(characters, r.query.search)
            IN  /\ Len(out) = Len(kept)
                /\ \A c \in Range(kept) : Occurrences(out, c) = Occurrences(kept, c)
                /\ \A i, j \in 1..Len(out) :
                      i < j =>
                          IF r.query.order = "desc"
                          THEN ~less(SortKey(out[i], r.query.sort), SortKey(out[j], r.query.sort))
                          ELSE ~less(SortKey(out[j], r.query.sort), SortKey(out[i], r.query.sort))]_vars

\* The records of a sequence that have a given sort key, in the sequence's order.
WithKey(seq, field, k) == SelectSeq(seq, LAMBDA c : SortKey(c, field) = k)

\* C14: sorting is idempotent: the sort step applied to a listing with the field
\* and direction that produced it returns the listing unchanged, and in the
\* listing the records with equal keys are in the order the collection has them,
\* in both directions.
C14_SortIdempotent ==
    [][\A r \in BagToSet(inflight) :
        GetCharactersFound(r) =>
            LET out == last'.chars
                sortField == IF r.query.sort = "" THEN "name" ELSE r.query.sort
                sortOrder == IF r.query.order = "desc" THEN -1 ELSE 1
                kept == SelectSeq(characters, LAMBDA c : c \in Range(out))
            IN  /\ sort(out, sortField, sortOrder) = out
                /\ \A c \in Range(out) :
                      WithKey(out, r.query.sort, SortKey(c, r.query.sort))
                          = WithKey(kept, r.query.sort, SortKey(c, r.query.sort))]_vars

\* A listing by unit name of "bo", "al", "Bo": the two records of unit "Red" tie
\* and follow "al" of unit "Bl" in the order the collection has them.
C14_Witness ==
    /\ last.route = "GET /characters"
    /\ last.status = 200
    /\ Len(characters) = 3
    /\ characters[1].id = "c3" /\ characters[2].id = "c2" /\ characters[3].id = "c1"
    /\ Len(last.chars) = 3
    /\ last.chars[1].id = "c2" /\ last.chars[2].id = "c3" /\ last.chars[3].id = "c1"

(***************************************************************************)
(* The character routes.                                                    *)
(***************************************************************************)
\* C15: a POST /characters/:id/edit of an ADMIN session reaches its handler, and
\* when its update returns the request is redirected to /characters/:id; the
\* update sets the name, age, description and active flag of the character with
\* that id to the values of the form (the age parsed, the flag true exactly for
\* "true") and changes nothing else: that character's other fields, every other
\* character, the number of characters and the accounts are as before.
C15_EditFrame ==
    [][/\ \A r \in BagToSet(inflight) :
            PostEditUpdated(r) =>
                /\ last' = Resp("POST /characters/:id/edit", 302, "redirect",
                                "/characters/" \o r.id)
                /\ UNCHANGED <<users, session>>
                /\ Len(characters') = Len(characters)
                /\ \A i \in 1..Len(characters) :
                      characters'[i] =
                          IF characters[i].id = r.id
                          THEN [characters[i] EXCEPT
                                   !.name = r.body.name,
                                   !.age = parseInt(r.body.age),
                                   !.description = r.body.description,
                                   !.isActive = (r.body.isActive = "true")]
                          ELSE characters[i]
       /\ \A b \in Browsers, id \in CharIds, body \in EditBodies :
            (session[b].role = "ADMIN" /\ PostEdit(b, id, body)) =>
                /\ last' = Quiet
                /\ UNCHANGED <<users, characters, session>>
                /\ \E r \in BagToSet(inflight') :
                      /\ r.route = "POST /characters/:id/edit"
                      /\ r.pc = "updateOne"
                      /\ r.id = id
                      /\ r.body = body
                      /\ CopiesIn(r, inflight') = CopiesIn(r, inflight) + 1]_vars

\* An ADMIN's edit of c1 was applied: the name, the age (41), the description and
\* the flag are those of the form, its rank and unit and the record c2 are as
\* imported.
C15_Witness ==
    /\ last = Resp("POST /characters/:id/edit", 302, "redirect", "/characters/c1")
    /\ Len(characters) = 2
    /\ characters[1] = [RosterData[1] EXCEPT !.name = <<90, 111>>, !.age = Num(41),
                                             !.description = "new", !.isActive = TRUE]
    /\ characters[2] = RosterData[2]
    /\ \E b \in Browsers : session[b].role = "ADMIN"

\* Whether the collection holds a character with this id.
HasCharacter(id) == \E i \in 1..Len(characters) : characters[i].id = id

\* Whether a character's embedded unit or an emblem record has this unit id.
HasUnit(id) ==
    \/ \E i \in 1..Len(characters) : characters[i].unit.id = id
    \/ \E i \in 1..Len(Emblems) : Emblems[i].id = id

\* C16: an authorized request whose handler finds that no character has the
\* requested id (GET /characters/:id, GET /characters/:id/edit and POST
\* /characters/:id/edit), or that no embedded unit and no emblem record has the
\* requested unit id (GET /units/:id), is answered with status 404.
C16_AbsentIdNotFound ==
    [][\A r \in BagToSet(inflight) :
        /\ (CharacterFound(r) /\ ~HasCharacter(r.id)) => last'.status = 404
        /\ (PostEditUpdated(r) /\ ~HasCharacter(r.id)) => last'.status = 404
        /\ (GetUnitEmblem(r) /\ ~HasUnit(r.id)) => last'.status = 404]_vars

(***************************************************************************)
(* The unit routes.                                                         *)
(***************************************************************************)
\* C17: for GET /units/:id the members are exactly the characters the find
\* returns, those whose embedded unit id is :id and no others; when the
\* lookup of the emblem returns, the unit shown is the emblem record with that id
\* if there is one (with or without members), otherwise the embedded unit of the
\* first member, both with status 200 and with those members; and the response is
\* the 404 exactly when there is neither an emblem record nor a member.
C17_UnitDetail ==
    [][\A r \in BagToSet(inflight) :
        /\ GetUnitMembers(r) =>
              \E n \in BagToSet(inflight') :
                  /\ n = [r EXCEPT !.pc = "findOne", !.members = n.members]
                  /\ CopiesIn(n, inflight') = CopiesIn(n, inflight) + 1
                  /\ \A c \in Range(n.members) : c.unit.id = r.id
                  /\ \A c \in Range(characters) :
                        Occurrences(n.members, c) =
                            IF c.unit.id = r.id THEN Occurrences(characters, c) ELSE 0
                  /\ Len(n.members) <= Len(characters)
        /\ GetUnitEmblem(r) =>
              LET emblems == {e \in Range(Emblems) : e.id = r.id} IN
              /\ (last'.status = 404) = (emblems = {} /\ r.members = <<>>)
              /\ last'.status \in {200, 404}
              /\ last'.status = 200 =>
                    /\ last'.text = "unit-detail"
                    /\ last'.chars = r.members
                    /\ IF emblems # {} THEN last'.unit \in emblems
                       ELSE last'.unit = r.members[1].unit]_vars

\* The view of unit u2, which has a member and an emblem record: the unit shown
\* is the emblem record, not the member's embedded copy.
C17_Witness ==
    /\ last.route = "GET /units/:id"
    /\ last.status = 200
    /\ last.chars = <<RosterData[2]>>
    /\ last.unit = Emblems[1]
    /\ last.unit # RosterData[2].unit

(***************************************************************************)
(* Storage failures.                                                        *)
(***************************************************************************)
\* C18: whenever the awaited storage operation of a request fails, in POST /login
\* and POST /register as in the character, unit and user routes, the request
\* ends with a response of status 500 to its route.
C18_StorageFailureAnswered ==
    [][\A r \in BagToSet(inflight) :
        (AuthStorageError(r) \/ AppStorageError(r)) =>
            /\ last'.status = 500
            /\ last'.route = r.route
            /\ inflight' = inflight (-) SetToBag({r})]_vars

\* The position of the last character of the collection with a given unit id.
LastWithUnit(id) ==
    CHOOSE i \in 1..Len(characters) :
        /\ characters[i].unit.id = id
        /\ \A j \in (i + 1)..Len(characters) : characters[j].unit.id # id

\* C19: the unit list of GET /units has exactly one entry for every embedded unit
\* id that occurs in the collection and no other entry, and the entry of an id
\* carries the unit data of the last character in collection order with that id.
C19_UnitsLastSeenWins ==
    [][\A r \in BagToSet(inflight) :
        GetUnitsFound(r) =>
            LET units == last'.chars IN
            /\ last'.status = 200
            /\ {units[i].id : i \in 1..Len(units)}
                  = {characters[i].unit.id : i \in 1..Len(characters)}
            /\ \A i, j \in 1..Len(units) : units[i].id = units[j].id => i = j
            /\ \A i \in 1..Len(units) :
                  units[i] = characters[LastWithUnit(units[i].id)].unit]_vars

\* Two characters embed different data for unit u1: the list has one entry for
\* u1, with the data of the second.
C19_Witness ==
    /\ last.route = "GET /units"
    /\ last.status = 200
    /\ Len(characters) = 2
    /\ characters[1].unit.id = characters[2].unit.id
    /\ characters[1].unit # characters[2].unit
    /\ last.chars = <<characters[2].unit>>

(***************************************************************************)
(* Sessions.                                                                *)
(***************************************************************************)
\* The session user an account stands for.
IdentityOf(account) ==
    [_id |-> "oid" \o ToString(account._id), username |-> account.username,
     role |-> account.role]

\* C20: in every reachable state the user of a session is the (_id, username,
\* role) of an account in the account collection; a session's user is written
\* only by a POST /login whose password matched, and then with the identity of the
\* account found (so it is an ADMIN only for an ADMIN account), and is removed only
\* by POST /logout on that session or by the session store dropping the session
\* (cookie expiry, process restart); no other step changes a session.
C20_SessionIsAccount ==
    /\ [](\A b \in Browsers :
            session[b] # NoUser => \E i \in 1..Len(users) : session[b] = IdentityOf(users[i]))
    /\ [][\A b \in Browsers :
            session'[b] # session[b] =>
                IF session'[b] = NoUser
                THEN PostLogout(b) \/ Expire(b) \/ Restart
                ELSE \E r \in Suspended("POST /login", "compare") :
                        /\ PostLoginCompared(r)
                        /\ r.b = b
                        /\ bcryptCompare(r.password, r.account.password)
                        /\ \E i \in 1..Len(users) : users[i] = r.account
                        /\ session'[b] = IdentityOf(r.account)]_vars

\* One browser is logged in as the seeded ADMIN and the other as the seeded USER.
C20_Witness ==
    /\ session["b1"] = [_id |-> "oid1", username |-> "admin", role |-> "ADMIN"]
    /\ session["b2"] = [_id |-> "oid2", username |-> "user", role |-> "USER"]
    /\ Len(users) = 2
    /\ users[1].role = "ADMIN"
    /\ users[2].role = "USER"

====
